---- MODULE Spec2Model ----
(***************************************************************************)
(* outrigger: detection of skipped-exon (SE) and mutually-exclusive-exon   *)
(* (MXE) events from a table of (exon, junction, direction) adjacencies.   *)
(*                                                                         *)
(* The model follows outrigger/index/events.py (EventMaker) and the        *)
(* identifier format of outrigger/io/gtf.py (transform).                   *)
(*                                                                         *)
(* Conventions.                                                            *)
(*  - An identifier 'type:chrom:start-stop:strand[:frame]' is the sequence *)
(*    of its fields and separators; strand and frame are one character     *)
(*    each, so the last character of the string is the last element.       *)
(*  - Python's 0-based positions are 1-based here: item i of the code is   *)
(*    item i+1 of the model.                                               *)
(*  - graphlite keeps one table of (src, dst) pairs per relation; a query  *)
(*    is the set of the selected column, listed in ascending index order.  *)
(***************************************************************************)
EXTENDS Integers, Sequences, FiniteSets, TLC

\* Largest number of rows of an input adjacency table.
MaxRows == 5

-----------------------------------------------------------------------------
(* outrigger/index/adjacencies.py and outrigger/io/common.py               *)

UPSTREAM == "upstream"

DOWNSTREAM == "downstream"

DIRECTIONS == {UPSTREAM, DOWNSTREAM}

\* opposite, had it handed the direction back unchanged
opposite_unchanged(direction) == direction

opposite(direction) ==
    IF direction = DOWNSTREAM THEN UPSTREAM ELSE DOWNSTREAM

-----------------------------------------------------------------------------
(* Identifiers                                                             *)

None == "None"

\* events.py: '{0}:{1}:{2}-{3}:{4}'.format(region, chrom, start, stop, strand)
stringify_location(chrom, start, stop, strand, region) ==
    IF region # None
    THEN <<region, ":", chrom, ":", start, "-", stop, ":", strand>>
    ELSE <<chrom, ":", start, "-", stop, ":", strand>>

\* gtf.py: the location_id given to a feature that is no gene or transcript
transform(f) ==
    LET exon_location ==
            <<f.featuretype, ":", f.seqid, ":", f.start, "-", f.stop, ":",
              f.strand>>
    IN  IF f.featuretype = "CDS"
        THEN exon_location \o <<":", f.frame>>
        ELSE exon_location

Feature(featuretype, start, stop, strand, frame) ==
    [featuretype |-> featuretype, seqid |-> "chr1", start |-> start,
     stop |-> stop, strand |-> strand, frame |-> frame]

\* The features whose exons an input table may name: two that do not
\* overlap, a coding feature that overlaps both, and an exon on the other
\* strand that starts where the third one starts.
ExonFeatures ==
    << Feature("exon", 1, 2, "+", "."),
       Feature("CDS", 2, 4, "+", "0"),
       Feature("exon", 3, 4, "+", "."),
       Feature("exon", 3, 4, "-", ".") >>

ExonPool == [k \in 1..Len(ExonFeatures) |-> transform(ExonFeatures[k])]

JunctionPool ==
    << stringify_location("chr1", 2, 3, "+", "junction"),
       stringify_location("chr1", 4, 5, "-", "junction") >>

\* region.py: Region(name), the interval an identifier encodes
Region(name) ==
    [name |-> name, region |-> name[1], chrom |-> name[3], start |-> name[5],
     stop |-> name[7], strand |-> name[9]]

\* region.py: Region.overlaps
overlaps(a, b) ==
    /\ a.chrom = b.chrom
    /\ a.strand = b.strand
    /\ a.start <= b.stop
    /\ b.start <= a.stop

-----------------------------------------------------------------------------
(* Input tables                                                            *)

\* Every row a table may hold, in a fixed order.
AllRows ==
    LET n == Len(ExonPool) * Len(JunctionPool) * 2
    IN  [k \in 1..n |->
            LET e == ((k - 1) \div (Len(JunctionPool) * 2)) + 1
                j == (((k - 1) \div 2) % Len(JunctionPool)) + 1
            IN  [exon |-> ExonPool[e], junction |-> JunctionPool[j],
                 direction |-> IF k % 2 = 1 THEN UPSTREAM ELSE DOWNSTREAM]]

\* The k-th smallest member of a set of numbers.
Kth(S, k) == CHOOSE i \in S : Cardinality({j \in S : j < i}) = k - 1

\* The rows of AllRows at the positions in S, in the order of AllRows.
TableOf(S) == [k \in 1..Cardinality(S) |-> AllRows[Kth(S, k)]]

Tables ==
    { TableOf(S) :
        S \in { T \in SUBSET (1..Len(AllRows)) : Cardinality(T) <= MaxRows } }

-----------------------------------------------------------------------------
(* Helpers for Python's sequences                                          *)

\* pandas unique(): the distinct values in order of first appearance
Unique(s) ==
    LET first == {i \in 1..Len(s) : \A k \in 1..(i - 1) : s[k] # s[i]}
    IN  [k \in 1..Cardinality(first) |-> s[Kth(first, k)]]

\* tuple.index(x): the first position holding x
IndexOf(s, x) ==
    CHOOSE i \in 1..Len(s) : s[i] = x /\ \A k \in 1..(i - 1) : s[k] # x

\* list(q) of a query or a set of item indices: ascending
ToList(S) == [k \in 1..Cardinality(S) |-> Kth(S, k)]

\* itertools.combinations(s, 2): the position pairs, in its order
Combinations2(n) ==
    LET pairs == {p \in (1..n) \X (1..n) : p[1] < p[2]}
        before(p, q) == p[1] < q[1] \/ (p[1] = q[1] /\ p[2] < q[2])
    IN  [k \in 1..Cardinality(pairs) |->
            CHOOSE p \in pairs :
                Cardinality({q \in pairs : before(q, p)}) = k - 1]

-----------------------------------------------------------------------------
VARIABLES
    junction_exon_triples,  \* the input table
    exons,                  \* the table's exons, each once
    junctions,              \* the table's junctions, each once
    graph,                  \* graph[relation]: the set of <<src, dst>> stored
    pc,                     \* where the program is
    row_i,                  \* rows of the table stored so far
    exon1_i,                \* exons the running scan has tried
    events,                 \* the running scan's dict, in insertion order
    se_df,                  \* what skipped_exon returned
    mxe_df,                 \* what mutually_exclusive_exon returned
    previous,               \* what the two scans returned the time before
    tried,                  \* sharded scan: the exons whose pass has run
    merged,                 \* sharded scan: the merged dicts of both scans
    tiebreak                \* sharded scan: <<S, x>>, set.pop() of S is x

vars ==
    <<junction_exon_triples, exons, junctions, graph, pc, row_i, exon1_i, events,
      se_df, mxe_df, previous, tried, merged, tiebreak>>

-----------------------------------------------------------------------------
(* EventMaker.__init__                                                     *)

column(table, name) == [i \in 1..Len(table) |-> table[i][name]]

n_exons == Len(exons)

items == exons \o junctions

item_to_region(i) == Region(items[i])

\* tr.store(V(src).rel(dst))
store(g, src, rel, dst) == [g EXCEPT ![rel] = @ \cup {<<src, dst>>}]

\* One pass of the loop over the rows: both directions are stored.
store_row(g, row) ==
    LET junction_i == n_exons + IndexOf(junctions, row.junction)
        exon_i == IndexOf(exons, row.exon)
    IN  store(store(g, exon_i, row.direction, junction_i),
              junction_i, opposite(row.direction), exon_i)

-----------------------------------------------------------------------------
(* Graph queries (graphlite's find, traverse and intersection)             *)

\* graph.find(V().rel(dst)): SELECT src FROM rel WHERE dst = ?
find_src(rel, dst) == {e[1] : e \in {x \in graph[rel] : x[2] = dst}}

\* graph.find(V(src).rel): SELECT dst FROM rel WHERE src = ?
find_dst(rel, src) == {e[2] : e \in {x \in graph[rel] : x[1] = src}}

\* query.traverse(V().rel): SELECT dst FROM rel WHERE src IN (query)
traverse(query, rel) == {e[2] : e \in {x \in graph[rel] : x[1] \in query}}

exons_one_junction_downstream(exon_i) ==
    traverse(find_src(DOWNSTREAM, exon_i), UPSTREAM)

exons_one_junction_upstream(exon_query) ==
    traverse(traverse(exon_query, DOWNSTREAM), DOWNSTREAM)

exons_two_junctions_downstream(exon_i) ==
    traverse(traverse(traverse(find_src(DOWNSTREAM, exon_i), UPSTREAM),
                      UPSTREAM), UPSTREAM)

\* junctions_between_exons, had the two relations been exchanged
junctions_between_exons_exchanged(exon_a, exon_b) ==
    find_dst(DOWNSTREAM, exon_a) \cap find_dst(UPSTREAM, exon_b)

junctions_between_exons(exon_a, exon_b) ==
    find_dst(UPSTREAM, exon_a) \cap find_dst(DOWNSTREAM, exon_b)

-----------------------------------------------------------------------------
(* The events dict and the candidate pairs                                 *)

\* events[key] = value: a known key keeps its place, a new one goes last
dict_set(d, key, value) ==
    IF \E k \in 1..Len(d) : d[k].exons = key
    THEN [k \in 1..Len(d) |->
            IF d[k].exons = key THEN [exons |-> key, junctions |-> value]
            ELSE d[k]]
    ELSE Append(d, [exons |-> key, junctions |-> value])

\* min((exon_a, exon_b), key=lambda x: x._start): the first of the smallest
min_start(exon_a, exon_b) ==
    IF exon_b.start < exon_a.start THEN exon_b ELSE exon_a

\* max((exon_a, exon_b), key=lambda x: x._start): the first of the largest
max_start(exon_a, exon_b) ==
    IF exon_b.start > exon_a.start THEN exon_b ELSE exon_a

\* [self.items[i] for i in junctions_i]
item_names(indices) == [k \in 1..Len(indices) |-> items[indices[k]]]

-----------------------------------------------------------------------------
(* EventMaker.skipped_exon                                                 *)

\* graph.find(V(exon2_i).upstream).intersection(V().upstream(exon3_i))
exon23_junction(exon2_i, exon3_i) ==
    find_dst(UPSTREAM, exon2_i) \cap find_src(UPSTREAM, exon3_i)

\* The body of the loop over the pairs, for one pair.
skipped_exon_pair(exon1, a_i, b_i, ev) ==
    LET exon_a == item_to_region(a_i)
        exon_b == item_to_region(b_i)
        exon2 == min_start(exon_a, exon_b)
        exon3 == max_start(exon_a, exon_b)
        exon2_i == IndexOf(exons, exon2.name)
        exon3_i == IndexOf(exons, exon3.name)
        exon23 == ToList(exon23_junction(exon2_i, exon3_i))
        exon13 == ToList(junctions_between_exons(exon1, exon3_i))
        exon12 == ToList(junctions_between_exons(exon1, exon2_i))
    IN  IF ~overlaps(exon_a, exon_b) /\ Len(exon23) > 0
        THEN dict_set(ev, <<exons[exon1], exon2.name, exon3.name>>,
                      item_names(exon12 \o exon23 \o exon13))
        ELSE ev

RECURSIVE skipped_exon_pairs(_, _, _, _, _)
skipped_exon_pairs(exon1, exon23s, pairs, k, ev) ==
    IF k > Len(pairs) THEN ev
    ELSE skipped_exon_pairs(exon1, exon23s, pairs, k + 1,
            skipped_exon_pair(exon1, exon23s[pairs[k][1]],
                              exon23s[pairs[k][2]], ev))

\* skipped_exon_exon1, had events = {} stood inside the loop over the exons
skipped_exon_exon1_fresh_dict(exon1, ev) ==
    LET exon23s == ToList(exons_one_junction_downstream(exon1))
    IN  skipped_exon_pairs(exon1, exon23s, Combinations2(Len(exon23s)), 1,
                           <<>>)

\* One pass of the loop over the exons.
skipped_exon_exon1(exon1, ev) ==
    LET exon23s == ToList(exons_one_junction_downstream(exon1))
    IN  skipped_exon_pairs(exon1, exon23s, Combinations2(Len(exon23s)), 1, ev)

-----------------------------------------------------------------------------
(* EventMaker.mutually_exclusive_exon                                      *)

\* set(exons_one_junction_downstream(exon2_i)) & set(...(exon3_i)), for the
\* pair as the loop orders it
exon4_candidates(a_i, b_i) ==
    LET exon_a == item_to_region(a_i)
        exon_b == item_to_region(b_i)
        exon2_i == IndexOf(items, min_start(exon_a, exon_b).name)
        exon3_i == IndexOf(items, max_start(exon_a, exon_b).name)
    IN  exons_one_junction_downstream(exon2_i)
            \cap exons_one_junction_downstream(exon3_i)

\* The values set.pop() may return for the pair: any member of the set; 0
\* stands for a pop that is not reached or raises KeyError.
pop_outcomes(a_i, b_i) ==
    IF overlaps(item_to_region(a_i), item_to_region(b_i))
          \/ exon4_candidates(a_i, b_i) = {}
    THEN {0}
    ELSE exon4_candidates(a_i, b_i)

\* The body of the loop over the pairs, for one pair; exon4_i is what
\* set.pop() returned.
mutually_exclusive_exon_pair(exon1, a_i, b_i, exon4_i, ev) ==
    LET exon_a == item_to_region(a_i)
        exon_b == item_to_region(b_i)
        exon2 == min_start(exon_a, exon_b)
        exon3 == max_start(exon_a, exon_b)
        exon2_i == IndexOf(items, exon2.name)
        exon3_i == IndexOf(items, exon3.name)
        exon13 == ToList(junctions_between_exons(exon1, exon3_i))
        exon34 == ToList(junctions_between_exons(exon3_i, exon4_i))
        exon12 == ToList(junctions_between_exons(exon1, exon2_i))
        exon24 == ToList(junctions_between_exons(exon2_i, exon4_i))
    IN  IF exon4_i # 0
        THEN dict_set(ev,
                      <<exons[exon1], exon2.name, exon3.name, items[exon4_i]>>,
                      item_names(exon13 \o exon34 \o exon12 \o exon24))
        ELSE ev

\* exon23s of one pass of the loop over the exons
mxe_exon23s(exon1) ==
    LET exon23s_from1 == exons_one_junction_downstream(exon1)
        exon4s == exons_two_junctions_downstream(exon1)
        exon23s_from4 == exons_one_junction_upstream(exon4s)
    IN  ToList(exon23s_from4 \cap exon23s_from1)

\* What the pops of one pass may return, pair by pair.
RECURSIVE pop_sequences(_, _, _)
pop_sequences(exon23s, pairs, k) ==
    IF k = 0 THEN {<<>>}
    ELSE { Append(c, x) :
            c \in pop_sequences(exon23s, pairs, k - 1),
            x \in pop_outcomes(exon23s[pairs[k][1]], exon23s[pairs[k][2]]) }

pops_of(exon1) ==
    LET exon23s == mxe_exon23s(exon1)
        pairs == Combinations2(Len(exon23s))
    IN  pop_sequences(exon23s, pairs, Len(pairs))

RECURSIVE mutually_exclusive_exon_pairs(_, _, _, _, _, _)
mutually_exclusive_exon_pairs(exon1, exon23s, pairs, pops, k, ev) ==
    IF k > Len(pairs) THEN ev
    ELSE mutually_exclusive_exon_pairs(exon1, exon23s, pairs, pops, k + 1,
            mutually_exclusive_exon_pair(exon1, exon23s[pairs[k][1]],
                                         exon23s[pairs[k][2]], pops[k], ev))

\* One pass of the loop over the exons, its pops returning pops[1], ...
mutually_exclusive_exon_exon1(exon1, pops, ev) ==
    LET exon23s == mxe_exon23s(exon1)
    IN  mutually_exclusive_exon_pairs(exon1, exon23s,
            Combinations2(Len(exon23s)), pops, 1, ev)

-----------------------------------------------------------------------------
(* Event table assembly                                                    *)

EVENT_ID_COLUMN == "event_id"

STRAND == "strand"

ISOFORM_ORDER == <<"isoform1", "isoform2">>

ISOFORM_COMPONENTS ==
    [se |-> [isoform1 |-> <<"junction13">>,
             isoform2 |-> <<"junction12", "exon2", "junction23">>],
     mxe |-> [isoform1 |-> <<"junction13", "exon3", "junction34">>,
              isoform2 |-> <<"junction12", "exon2", "junction24">>]]

\* sep.join(parts), each part the sequence of its characters
RECURSIVE join(_, _)
join(parts, sep) ==
    IF Len(parts) = 0 THEN <<>>
    ELSE IF Len(parts) = 1 THEN parts[1]
    ELSE parts[1] \o <<sep>> \o join(Tail(parts), sep)

\* s[-1]
last_char(s) == s[Len(s)]

\* One row of the table; the junctions are set column by column.
event_row(event, exon_names, junction_names) ==
    [c \in {exon_names[k] : k \in 1..Len(exon_names)}
           \cup {junction_names[k] : k \in 1..Len(junction_names)}
           \cup {"exons", "junctions", STRAND} |->
        IF c = "exons" THEN join(event.exons, "@")
        ELSE IF c = "junctions" THEN join(event.junctions, "@")
        ELSE IF c = STRAND THEN last_char(event.exons[1])
        ELSE IF \E k \in 1..Len(exon_names) : exon_names[k] = c
             THEN event.exons[IndexOf(exon_names, c)]
             ELSE event.junctions[IndexOf(junction_names, c)]]

\* data.loc[i, junction_names] = list(junctions) takes as many values as
\* there are columns; any other number raises ValueError.
event_dict_to_df(ev, exon_names, junction_names) ==
    IF \E i \in 1..Len(ev) : Len(ev[i].junctions) # Len(junction_names)
    THEN [raised |-> "ValueError", rows |-> <<>>]
    ELSE [raised |-> None,
          rows |-> [i \in 1..Len(ev) |->
                        event_row(ev[i], exon_names, junction_names)]]

event_id(splice_type) ==
    join([k \in 1..Len(ISOFORM_ORDER) |->
            <<ISOFORM_ORDER[k], "=">>
            \o join([c \in 1..Len(ISOFORM_COMPONENTS[splice_type]
                                        [ISOFORM_ORDER[k]]) |->
                        <<ISOFORM_COMPONENTS[splice_type][ISOFORM_ORDER[k]][c]>>],
                    "@")],
         "|")

add_event_id_col(df, splice_type) ==
    [df EXCEPT !.rows =
        [i \in 1..Len(df.rows) |->
            [c \in DOMAIN df.rows[i] \cup {EVENT_ID_COLUMN} |->
                IF c = EVENT_ID_COLUMN THEN event_id(splice_type)
                ELSE df.rows[i][c]]]]

SE_EXONS == <<"exon1", "exon2", "exon3">>

SE_JUNCTIONS == <<"junction12", "junction23", "junction13">>

MXE_EXONS == <<"exon1", "exon2", "exon3", "exon4">>

MXE_JUNCTIONS == <<"junction13", "junction34", "junction12", "junction24">>

\* The table a scan returns, or the exception it raises.
returned(ev, exon_names, junction_names, splice_type) ==
    LET df == event_dict_to_df(ev, exon_names, junction_names)
    IN  IF df.raised # None THEN df ELSE add_event_id_col(df, splice_type)

\* No table yet: the scan has not returned.
NotCalled == [raised |-> "not called", rows |-> <<>>]

-----------------------------------------------------------------------------
(* The two loops over the exons, run from first to last                    *)

RECURSIVE skipped_exon_events(_, _)
skipped_exon_events(exon1, ev) ==
    IF exon1 > n_exons THEN ev
    ELSE skipped_exon_events(exon1 + 1, skipped_exon_exon1(exon1, ev))

\* The sets one pass pops from.
popped_sets(exon1) ==
    LET exon23s == mxe_exon23s(exon1)
        pairs == Combinations2(Len(exon23s))
    IN  { exon4_candidates(exon23s[pairs[k][1]], exon23s[pairs[k][2]]) :
            k \in { i \in 1..Len(pairs) :
                      0 \notin pop_outcomes(exon23s[pairs[i][1]],
                                            exon23s[pairs[i][2]]) } }

\* What the pops of one pass return when set.pop() follows the policy.
pops_under(policy, exon1) ==
    LET exon23s == mxe_exon23s(exon1)
        pairs == Combinations2(Len(exon23s))
        S(k) == exon4_candidates(exon23s[pairs[k][1]], exon23s[pairs[k][2]])
    IN  [k \in 1..Len(pairs) |->
            IF 0 \in pop_outcomes(exon23s[pairs[k][1]], exon23s[pairs[k][2]])
            THEN 0
            ELSE (CHOOSE p \in policy : p[1] = S(k))[2]]

RECURSIVE mutually_exclusive_exon_events(_, _, _)
mutually_exclusive_exon_events(exon1, policy, ev) ==
    IF exon1 > n_exons THEN ev
    ELSE mutually_exclusive_exon_events(exon1 + 1, policy,
            mutually_exclusive_exon_exon1(exon1, pops_under(policy, exon1),
                                          ev))

\* dict.update(part): the last writer of a key wins
RECURSIVE dict_update(_, _)
dict_update(d, part) ==
    IF Len(part) = 0 THEN d
    ELSE dict_update(dict_set(d, part[1].exons, part[1].junctions), Tail(part))

-----------------------------------------------------------------------------
Init ==
    /\ junction_exon_triples \in Tables
    /\ exons = Unique(column(junction_exon_triples, "exon"))
    /\ junctions = Unique(column(junction_exon_triples, "junction"))
    /\ graph = [d \in DIRECTIONS |-> {}]
    /\ pc = "init"
    /\ row_i = 0
    /\ exon1_i = 0
    /\ events = <<>>
    /\ se_df = NotCalled
    /\ mxe_df = NotCalled
    /\ previous = [se |-> NotCalled, mxe |-> NotCalled]
    /\ tried = {}
    /\ merged = [se |-> <<>>, mxe |-> <<>>]
    /\ tiebreak = {}

input == <<junction_exon_triples, exons, junctions>>

sharded == <<tried, merged, tiebreak>>

\* __init__: one row of the table is stored, with its inverse.
StoreRow ==
    /\ pc = "init"
    /\ row_i < Len(junction_exon_triples)
    /\ graph' = store_row(graph, junction_exon_triples[row_i + 1])
    /\ row_i' = row_i + 1
    /\ UNCHANGED <<input, pc, exon1_i, events, se_df, mxe_df, previous, sharded>>

\* __init__ returns and skipped_exon is called (EVENT_TYPES names it first).
CallSkippedExon ==
    /\ pc = "init"
    /\ row_i = Len(junction_exon_triples)
    /\ pc' = "skipped_exon"
    /\ exon1_i' = 0
    /\ events' = <<>>
    /\ UNCHANGED <<input, graph, row_i, se_df, mxe_df, previous, sharded>>

\* skipped_exon: one pass of the loop over the exons.
SkippedExonExon1 ==
    /\ pc = "skipped_exon"
    /\ exon1_i < n_exons
    /\ events' = skipped_exon_exon1(exon1_i + 1, events)
    /\ exon1_i' = exon1_i + 1
    /\ UNCHANGED <<input, graph, pc, row_i, se_df, mxe_df, previous, sharded>>

\* skipped_exon: the table is built and returned, or the call raises;
\* mutually_exclusive_exon is called next.
ReturnSkippedExon ==
    /\ pc = "skipped_exon"
    /\ exon1_i = n_exons
    /\ se_df' = returned(events, SE_EXONS, SE_JUNCTIONS, "se")
    /\ pc' = "mutually_exclusive_exon"
    /\ exon1_i' = 0
    /\ events' = <<>>
    /\ UNCHANGED <<input, graph, row_i, mxe_df, previous, sharded>>

\* mutually_exclusive_exon: one pass of the loop over the exons.
MutuallyExclusiveExonExon1 ==
    /\ pc = "mutually_exclusive_exon"
    /\ exon1_i < n_exons
    /\ \E pops \in pops_of(exon1_i + 1) :
          events' = mutually_exclusive_exon_exon1(exon1_i + 1, pops, events)
    /\ exon1_i' = exon1_i + 1
    /\ UNCHANGED <<input, graph, pc, row_i, se_df, mxe_df, previous, sharded>>

\* mutually_exclusive_exon: the table is built and returned, or the call
\* raises.
ReturnMutuallyExclusiveExon ==
    /\ pc = "mutually_exclusive_exon"
    /\ exon1_i = n_exons
    /\ mxe_df' = returned(events, MXE_EXONS, MXE_JUNCTIONS, "mxe")
    /\ pc' = "done"
    /\ UNCHANGED <<input, graph, row_i, exon1_i, events, se_df, previous,
                   sharded>>

Next ==
    \/ StoreRow
    \/ CallSkippedExon
    \/ SkippedExonExon1
    \/ ReturnSkippedExon
    \/ MutuallyExclusiveExonExon1
    \/ ReturnMutuallyExclusiveExon

Spec == Init /\ [][Next]_vars

-----------------------------------------------------------------------------
(* Both scans run a second time on the same EventMaker                     *)

CallAgain ==
    /\ pc = "done"
    /\ previous.se = NotCalled
    /\ previous' = [se |-> se_df, mxe |-> mxe_df]
    /\ pc' = "skipped_exon"
    /\ exon1_i' = 0
    /\ events' = <<>>
    /\ UNCHANGED <<input, graph, row_i, se_df, mxe_df, sharded>>

NextTwice == Next \/ CallAgain

SpecTwice == Init /\ [][NextTwice]_vars

-----------------------------------------------------------------------------
(* The loops over the exons sharded: every pass runs on a dict of its own, *)
(* in any order, and the dicts are merged as they come, last writer wins   *)

StartShards ==
    /\ pc = "init"
    /\ row_i = Len(junction_exon_triples)
    /\ pc' = "sharded"
    /\ UNCHANGED <<input, graph, row_i, exon1_i, events, se_df, mxe_df,
                   previous, sharded>>

\* One pass of both loops for an exon not tried yet. set.pop() follows one
\* policy throughout: a set popped before gives what it gave then, a new set
\* gives any of its members.
ShardExon1 ==
    /\ pc = "sharded"
    /\ \E exon1 \in (1..n_exons) \ tried :
        LET new == popped_sets(exon1) \ {p[1] : p \in tiebreak}
        IN  \E choice \in { f \in [new -> 1..n_exons] :
                              \A S \in new : f[S] \in S } :
              LET policy == tiebreak \cup {<<S, choice[S]>> : S \in new}
              IN  /\ merged' =
                       [se |-> dict_update(merged.se,
                                    skipped_exon_exon1(exon1, <<>>)),
                        mxe |-> dict_update(merged.mxe,
                                    mutually_exclusive_exon_exon1(exon1,
                                        pops_under(policy, exon1), <<>>))]
                  /\ tried' = tried \cup {exon1}
                  /\ tiebreak' = policy
    /\ UNCHANGED <<input, graph, pc, row_i, exon1_i, events, se_df, mxe_df,
                   previous>>

ShardsMerged ==
    /\ pc = "sharded"
    /\ tried = 1..n_exons
    /\ pc' = "merged"
    /\ UNCHANGED <<input, graph, row_i, exon1_i, events, se_df, mxe_df,
                   previous, sharded>>

NextSharded == StoreRow \/ StartShards \/ ShardExon1 \/ ShardsMerged

SpecSharded == Init /\ [][NextSharded]_vars
-----------------------------------------------------------------------------
(* What the input table says, in the words of the claims                   *)

\* The feature an exon identifier names.
feature_of(name) ==
    ExonFeatures[CHOOSE k \in 1..Len(ExonPool) : ExonPool[k] = name]

\* Same chromosome, same strand, intersecting closed intervals.
GenomicOverlap(a, b) ==
    LET fa == feature_of(a)
        fb == feature_of(b)
    IN  /\ fa.seqid = fb.seqid
        /\ fa.strand = fb.strand
        /\ fa.start <= fb.stop
        /\ fb.start <= fa.stop

TableRows ==
    {junction_exon_triples[k] : k \in 1..Len(junction_exon_triples)}

ExonNames == {exons[k] : k \in 1..Len(exons)}

JunctionNames == {junctions[k] : k \in 1..Len(junctions)}

\* The junctions that directly link exon a to exon b: a is upstream of the
\* junction and b is downstream of it.
Links(a, b) ==
    { j \in JunctionNames :
        /\ [exon |-> a, junction |-> j, direction |-> UPSTREAM] \in TableRows
        /\ [exon |-> b, junction |-> j, direction |-> DOWNSTREAM]
              \in TableRows }

\* b is one junction downstream of a.
Downstream(a, b) == Links(a, b) # {}

\* The exons one junction downstream of both b and c.
Convergence(b, c) ==
    { d \in ExonNames : Downstream(b, d) /\ Downstream(c, d) }

SERows == {se_df.rows[i] : i \in 1..Len(se_df.rows)}

MXERows == {mxe_df.rows[i] : i \in 1..Len(mxe_df.rows)}

SEReturned == pc \in {"mutually_exclusive_exon", "done"}

MXEReturned == pc = "done"

Rows == SERows \cup MXERows

start_of(name) == feature_of(name).start

\* At most one junction directly links any ordered pair of exons.
AtMostOneLink ==
    \A a \in ExonNames, b \in ExonNames : Cardinality(Links(a, b)) <= 1

\* The edges the first n rows of the table put in the graph.
EdgesOf(n) ==
    LET row(k) == junction_exon_triples[k]
        e(k) == IndexOf(exons, row(k).exon)
        j(k) == n_exons + IndexOf(junctions, row(k).junction)
        same(d) == {k \in 1..n : row(k).direction = d}
        other(d) == {k \in 1..n : row(k).direction # d}
    IN  [d \in DIRECTIONS |->
            {<<e(k), j(k)>> : k \in same(d)}
                \cup {<<j(k), e(k)>> : k \in other(d)}]

\* The mapping a dict holds: its entries, whatever their order.
Mapping(d) == {d[k] : k \in 1..Len(d)}

Keys(d) == {d[k].exons : k \in 1..Len(d)}

-----------------------------------------------------------------------------
(* C1 *)

\* C1: no row returned by skipped_exon or by mutually_exclusive_exon has an
\* exon2 and an exon3 that genomically overlap (same chromosome, same strand,
\* intersecting closed intervals).
NoOverlappingExon23 ==
    \A r \in Rows : ~GenomicOverlap(r["exon2"], r["exon3"])

-----------------------------------------------------------------------------
(* C2 *)

\* The triples skipped_exon is to return a row for.
SkippedExonTriples ==
    { t \in ExonNames \X ExonNames \X ExonNames :
        /\ Downstream(t[1], t[2])
        /\ Downstream(t[1], t[3])
        /\ ~GenomicOverlap(t[2], t[3])
        /\ start_of(t[2]) < start_of(t[3])
        /\ Links(t[2], t[3]) # {} }

\* C2: skipped_exon returns a row for (e1, e2, e3) if and only if e2 and e3
\* are one junction downstream of e1, do not overlap, e2 has the smaller
\* start and a junction links e2 to e3; each such triple has exactly one row.
SkippedExonRowsAreTheTriples ==
    SEReturned =>
        /\ {<<r["exon1"], r["exon2"], r["exon3"]>> : r \in SERows}
              = SkippedExonTriples
        /\ Len(se_df.rows) = Cardinality(SkippedExonTriples)

-----------------------------------------------------------------------------
(* C3 *)

\* The (e1, e2, e3) mutually_exclusive_exon is to return a row for.
MutuallyExclusiveExonTriples ==
    { t \in ExonNames \X ExonNames \X ExonNames :
        /\ Downstream(t[1], t[2])
        /\ Downstream(t[1], t[3])
        /\ ~GenomicOverlap(t[2], t[3])
        /\ start_of(t[2]) < start_of(t[3])
        /\ Convergence(t[2], t[3]) # {} }

\* C3: mutually_exclusive_exon returns a row (e1, e2, e3, e4) only when e2
\* and e3 are one junction downstream of e1, do not overlap, e2 has the
\* smaller start and e4 is one junction downstream of both; every such
\* (e1, e2, e3) with a non-empty common downstream set has exactly one row,
\* and no error is raised.
MutuallyExclusiveExonRowsAreTheTriples ==
    MXEReturned =>
        /\ mxe_df.raised = None
        /\ {<<r["exon1"], r["exon2"], r["exon3"]>> : r \in MXERows}
              = MutuallyExclusiveExonTriples
        /\ Len(mxe_df.rows) = Cardinality(MutuallyExclusiveExonTriples)
        /\ \A r \in MXERows :
              r["exon4"] \in Convergence(r["exon2"], r["exon3"])

-----------------------------------------------------------------------------
(* C4 *)

\* C4: when at most one junction links any ordered pair of exons, every
\* event has exactly one junction per junction column, in the order
\* [junction12, junction23, junction13] for SE and [junction13, junction34,
\* junction12, junction24] for MXE, and the junction in column junctionXY
\* is one that exonX is upstream of and exonY is downstream of.
JunctionColumnsHoldTheirLink ==
    AtMostOneLink =>
        /\ se_df.raised # "ValueError"
        /\ mxe_df.raised # "ValueError"
        /\ \A r \in SERows :
              /\ Links(r["exon1"], r["exon2"]) = {r["junction12"]}
              /\ Links(r["exon2"], r["exon3"]) = {r["junction23"]}
              /\ Links(r["exon1"], r["exon3"]) = {r["junction13"]}
              /\ r["junctions"] =
                    join(<<r["junction12"], r["junction23"], r["junction13"]>>,
                         "@")
        /\ \A r \in MXERows :
              /\ Links(r["exon1"], r["exon3"]) = {r["junction13"]}
              /\ Links(r["exon3"], r["exon4"]) = {r["junction34"]}
              /\ Links(r["exon1"], r["exon2"]) = {r["junction12"]}
              /\ Links(r["exon2"], r["exon4"]) = {r["junction24"]}
              /\ r["junctions"] =
                    join(<<r["junction13"], r["junction34"], r["junction12"],
                           r["junction24"]>>, "@")

\* Both scans have returned a table of a well-formed input; an SE event has
\* two different junctions and an MXE event has been emitted.
JunctionColumnsFilled ==
    /\ pc = "done"
    /\ AtMostOneLink
    /\ \E r \in SERows : r["junction12"] # r["junction23"]
    /\ MXERows # {}

-----------------------------------------------------------------------------
(* C5 *)

\* C5: the graph is symmetric after every processed row: the edge
\* (a, upstream, b) is present if and only if (b, downstream, a) is; the
\* graph holds the edges of the rows processed so far, and the two scans
\* never add or remove an edge.
GraphSymmetric ==
    /\ \A a \in 1..Len(items), b \in 1..Len(items) :
          <<a, b>> \in graph[UPSTREAM] <=> <<b, a>> \in graph[DOWNSTREAM]
    /\ graph = EdgesOf(row_i)
    /\ pc # "init" => row_i = Len(junction_exon_triples)

\* Both scans have run over a graph with edges and emitted events.
ScansRanOverGraph ==
    /\ pc = "done"
    /\ graph[UPSTREAM] # {}
    /\ SERows # {}
    /\ MXERows # {}

-----------------------------------------------------------------------------
(* C6 *)

\* C6: running skipped_exon twice, or mutually_exclusive_exon twice, on the
\* same input yields identical tables, row order and exon4 included.
SecondRunSameTables ==
    (pc = "done" /\ previous.se # NotCalled) =>
        /\ se_df = previous.se
        /\ mxe_df = previous.mxe

-----------------------------------------------------------------------------
(* C7 *)

\* C7: skipped_exon and mutually_exclusive_exon complete without failure,
\* also when more than one junction links the same ordered pair of exons; a
\* junction list that does not fit the junction columns is a failure.
ScansCompleteWithoutFailure ==
    /\ se_df.raised # "ValueError"
    /\ mxe_df.raised # "ValueError"

-----------------------------------------------------------------------------
(* C8 *)

\* C8: the strand column of every event row is the strand encoded in the
\* identifier of the row's exon1, reading-frame suffix or not.
StrandColumnIsExon1Strand ==
    \A r \in Rows : r[STRAND] = feature_of(r["exon1"]).strand

-----------------------------------------------------------------------------
(* C9 *)

\* C9: in every emitted event exon2 and exon3 are the two different members
\* of the candidate pair, exon2 the one with the smaller start, also when
\* the two starts are equal.
Exon2AndExon3Differ ==
    \A r \in Rows :
        /\ r["exon2"] # r["exon3"]
        /\ start_of(r["exon2"]) <= start_of(r["exon3"])

-----------------------------------------------------------------------------
(* C10 *)

\* The junction list skipped_exon stores for a key, computed from the key.
se_junctions_of(key) ==
    LET i(k) == IndexOf(exons, key[k])
    IN  item_names(ToList(junctions_between_exons(i(1), i(2)))
                   \o ToList(exon23_junction(i(2), i(3)))
                   \o ToList(junctions_between_exons(i(1), i(3))))

\* The junction list mutually_exclusive_exon stores for a key.
mxe_junctions_of(key) ==
    LET i(k) == IndexOf(exons, key[k])
    IN  item_names(ToList(junctions_between_exons(i(1), i(3)))
                   \o ToList(junctions_between_exons(i(3), i(4)))
                   \o ToList(junctions_between_exons(i(1), i(2)))
                   \o ToList(junctions_between_exons(i(2), i(4))))

\* C10: the passes of the loop over the exons are independent: a pass only
\* reads the graph, two passes of different exons never write the same key,
\* the junction list of a key depends on the key only, and for a fixed
\* set.pop() policy the passes run in any order and merged last-writer-wins
\* give the mapping of the sequential scan.
ShardedScanSameMapping ==
    /\ pc \in {"sharded", "merged"} =>
          /\ graph = EdgesOf(Len(junction_exon_triples))
          /\ \A k \in 1..Len(merged.se) :
                merged.se[k].junctions = se_junctions_of(merged.se[k].exons)
          /\ \A k \in 1..Len(merged.mxe) :
                merged.mxe[k].junctions
                    = mxe_junctions_of(merged.mxe[k].exons)
    /\ (pc = "sharded" /\ tried = {}) =>
          \A e1 \in 1..n_exons, e2 \in 1..n_exons :
              e1 # e2 =>
                /\ Keys(skipped_exon_exon1(e1, <<>>))
                      \cap Keys(skipped_exon_exon1(e2, <<>>)) = {}
                /\ \A p1 \in pops_of(e1), p2 \in pops_of(e2) :
                      Keys(mutually_exclusive_exon_exon1(e1, p1, <<>>))
                          \cap Keys(mutually_exclusive_exon_exon1(e2, p2, <<>>))
                          = {}
    /\ pc = "merged" =>
          /\ Mapping(merged.se) = Mapping(skipped_exon_events(1, <<>>))
          /\ Mapping(merged.mxe) =
                Mapping(mutually_exclusive_exon_events(1, tiebreak, <<>>))

\* The passes were merged in an order that is not the order of the
\* sequential scan, and two passes each gave an event.
ShardsMergedOutOfOrder ==
    /\ pc = "merged"
    /\ Cardinality({merged.se[k].exons[1] : k \in 1..Len(merged.se)}) >= 2
    /\ merged.se # skipped_exon_events(1, <<>>)
    /\ merged.mxe # <<>>
====
